---- MODULE Spec2Model ----
(***************************************************************************)
(* Budget dashboard (legnangel01/dashboard-presupuesto).                   *)
(*                                                                         *)
(* The repository holds four iterations of one React view:                 *)
(*   variant 1  src/src/App.jsx        lines   1-275  (auth, "Otros Ramos")*)
(*   variant 2  src/src/App.jsx        lines 277-508  (env-based, no auth) *)
(*   variant 3  src/unnamed/part_000   lines   1-262  (auth, "Sin nombre") *)
(*   variant 4  src/unnamed/part_000   lines 264-533  (auth, eager init)   *)
(*                                                                         *)
(* JavaScript values are records [t, n, s]: t is the typeof tag, n the     *)
(* value of a number, s the characters of a string.  Numbers are integers  *)
(* (amounts in whole pesos); NaN is a separate record.                     *)
(***************************************************************************)
EXTENDS Integers, Sequences, FiniteSets, TLC

VARIABLES
    variant,        \* which of the four iterations runs
    config,         \* the injected __firebase_config / VITE_FIREBASE_API_KEY
    token,          \* the injected __initial_auth_token
    services,       \* module level: db (and auth) handles were initialised
    phase,          \* "constructed" | "mounted" | "unmounted" | "crashed"
    data,           \* useState([])
    loading,        \* useState(true)
    error,          \* useState(null): a message (sequence of parts), <<>> is null
    view,           \* useState('dashboard')
    user,           \* useState(null)
    authListener,   \* the onAuthStateChanged listener is registered
    dataSub,        \* the onSnapshot subscription of the data effect
    signIn,         \* the initAuth promise: "none" | "pending" | "resolved" | "rejected"
    signInRequests, \* the sign-in requests sent to the auth service, in order
    collection,     \* backend: the ids of the documents of presupuesto_2025
    lastSnap,       \* history: the ids of the documents of the snapshot delivered last
    delivered,      \* history: some snapshot has been delivered
    opened,         \* history: the onSnapshot calls made since the view mounted
    subErrored,     \* history: some subscription has reported an error
    listeners,      \* backend: the listeners registered, <<"auth", 1>> or <<"data", id>>
    staleCalls      \* history: a callback of a replaced subscription has run

vars == <<variant, config, token, services, phase, data, loading, error, view,
          user, authListener, dataSub, signIn, signInRequests, collection, lastSnap,
          delivered, opened, subErrored, listeners, staleCalls>>

(***************************************************************************)
(* Bounds                                                                  *)
(***************************************************************************)
\* documents the backend collection may hold in the lifecycle runs
LifeDocs == 2
\* documents the backend collection may hold in the aggregation runs
AggDocs == 12
\* onSnapshot calls followed within one mount
MaxOpens == 3

(***************************************************************************)
(* JavaScript values                                                       *)
(***************************************************************************)
Undefined == [t |-> "undefined", n |-> 0, s |-> <<>>]
Null == [t |-> "object", n |-> 0, s |-> <<>>]
Num(k) == [t |-> "number", n |-> k, s |-> <<>>]
Str(cs) == [t |-> "string", n |-> 0, s |-> cs]
NaN == [t |-> "NaN", n |-> 0, s |-> <<>>]

\* ToBoolean: what `x || y` and `if (x)` test
Truthy(v) ==
    CASE v.t = "undefined" -> FALSE
      [] v.t = "object" -> FALSE
      [] v.t = "NaN" -> FALSE
      [] v.t = "number" -> v.n # 0
      [] v.t = "string" -> v.s # <<>>

\* faulty variant: x ?? y, which keeps '' and 0
OrNullish(x, y) == IF x.t \in {"undefined", "object"} THEN y ELSE x

\* x || y
Or(x, y) == IF Truthy(x) THEN x ELSE y

Digits == <<"0", "1", "2", "3", "4", "5", "6", "7", "8", "9">>

IsDigit(c) == \E k \in 1..10 : Digits[k] = c

DigitValue(c) == (CHOOSE k \in 1..10 : Digits[k] = c) - 1

RECURSIVE ParseDigits(_, _)
ParseDigits(cs, acc) ==
    IF cs = <<>> THEN acc
    ELSE ParseDigits(Tail(cs), acc * 10 + DigitValue(Head(cs)))

\* StringToNumber on a decimal integer literal: "" is 0, digits with an
\* optional sign are their value, anything else is NaN
StringToNumber(cs) ==
    IF cs = <<>> THEN Num(0)
    ELSE LET signed == Head(cs) \in {"-", "+"}
             body == IF signed THEN Tail(cs) ELSE cs
         IN IF body # <<>> /\ \A k \in 1..Len(body) : IsDigit(body[k])
            THEN Num((IF Head(cs) = "-" THEN -1 ELSE 1) * ParseDigits(body, 0))
            ELSE NaN

\* Number(v)
ToNumber(v) ==
    CASE v.t = "undefined" -> NaN
      [] v.t = "object" -> Num(0)
      [] v.t = "NaN" -> NaN
      [] v.t = "number" -> v
      [] v.t = "string" -> StringToNumber(v.s)

\* Number(v) || 0, as the integer it yields
NumberOrZero(v) == Or(ToNumber(v), Num(0)).n

(***************************************************************************)
(* Strings of the program                                                  *)
(***************************************************************************)
OtrosRamos == <<"O", "t", "r", "o", "s", " ", "R", "a", "m", "o", "s">>
SinClasificar == <<"S", "i", "n", " ", "C", "l", "a", "s", "i", "f", "i", "c", "a", "r">>
SinNombre == <<"S", "i", "n", " ", "n", "o", "m", "b", "r", "e">>
NA == <<"N", "/", "A">>
Constructor == <<"c", "o", "n", "s", "t", "r", "u", "c", "t", "o", "r">>

\* the fallback category label of each variant
FallbackRamo(v) ==
    CASE v = 1 -> OtrosRamos
      [] v = 2 -> SinClasificar
      [] OTHER -> SinNombre

(***************************************************************************)
(* The backend collection.  Document i has id i; a query without orderBy   *)
(* delivers the documents in id order.  No category name is an integer      *)
(* literal, so Object.values keeps insertion order.                        *)
(***************************************************************************)
MkDoc(i, ramo, aprobado, pagado) ==
    [id |-> i, DESC_RAMO |-> ramo, MONTO_APROBADO |-> aprobado, MONTO_PAGADO |-> pagado,
     DESC_UR |-> IF i % 2 = 0 THEN Undefined ELSE Str(<<"U">>),
     MONTO_MODIFICADO |-> IF i % 3 = 0 THEN Num(i) ELSE Undefined]

Doc(i) ==
    CASE i = 1 -> MkDoc(i, Str(<<"A">>), Num(100), Num(50))
      [] i = 2 -> MkDoc(i, Str(<<"A">>), Num(50), Num(50))
      [] i = 3 -> MkDoc(i, Str(<<"B">>), Num(200), Num(0))
      [] i = 4 -> MkDoc(i, Undefined, Str(<<"1", "0", "0">>), Undefined)
      [] i = 5 -> MkDoc(i, Null, Num(30), Null)
      [] i = 6 -> MkDoc(i, Str(Constructor), Num(100), Num(20))
      [] i = 7 -> MkDoc(i, Str(<<"C">>), Num(300), Num(100))
      [] i = 8 -> MkDoc(i, Str(<<>>), Num(0), Num(7))
      [] i = 9 -> MkDoc(i, Str(<<"E">>), Num(200), Str(<<"a", "b", "c">>))
      [] i = 10 -> MkDoc(i, Str(<<"F">>), Num(10), Num(5))
      [] i = 11 -> MkDoc(i, Str(<<"G">>), Num(400), Num(400))
      [] i = 12 -> MkDoc(i, Str(<<"H">>), Num(-50), Str(<<"-", "5">>))
      [] OTHER -> MkDoc(i, Str(<<"R", Digits[(i % 10) + 1]>>), Num(10 * i), Num(i))

RECURSIVE DocsOf(_)
\* snapshot.docs of a collection holding the documents with ids in S, in id order
DocsOf(S) ==
    IF S = {} THEN <<>>
    ELSE LET m == CHOOSE x \in S : \A y \in S : x <= y
         IN <<Doc(m)>> \o DocsOf(S \ {m})

(***************************************************************************)
(* Normalisation of a snapshot (the onSnapshot success callback's map)     *)
(***************************************************************************)
NormalizeDoc(v, d) ==
    CASE v = 1 ->
           [id |-> d.id,
            ramo |-> Or(d.DESC_RAMO, Str(OtrosRamos)),
            aprobado |-> NumberOrZero(d.MONTO_APROBADO),
            pagado |-> NumberOrZero(d.MONTO_PAGADO),
            ur |-> Or(d.DESC_UR, Str(NA))]
      [] v = 2 ->
           [id |-> d.id,
            DESC_RAMO |-> Or(d.DESC_RAMO, Str(SinClasificar)),
            aprobado |-> NumberOrZero(d.MONTO_APROBADO),
            pagado |-> NumberOrZero(d.MONTO_PAGADO)]
      [] v = 3 ->
           [id |-> d.id,
            ramo |-> Or(d.DESC_RAMO, Str(SinNombre)),
            aprobado |-> NumberOrZero(d.MONTO_APROBADO),
            pagado |-> NumberOrZero(d.MONTO_PAGADO),
            ur |-> Or(d.DESC_UR, Str(NA))]
      [] OTHER ->
           [id |-> d.id,
            ramo |-> Or(d.DESC_RAMO, Str(SinNombre)),
            aprobado |-> NumberOrZero(d.MONTO_APROBADO),
            pagado |-> NumberOrZero(d.MONTO_PAGADO),
            modificado |-> NumberOrZero(d.MONTO_MODIFICADO),
            ur |-> Or(d.DESC_UR, Str(NA))]

\* snapshot.docs.map(doc => ...)
MapDocs(v, docs) == [k \in 1..Len(docs) |-> NormalizeDoc(v, docs[k])]

\* the items handed to setData; variants 3 and 4 test snapshot.empty first
SnapshotItems(v, docs) ==
    IF v \in {3, 4} /\ docs = <<>> THEN <<>> ELSE MapDocs(v, docs)

\* the category of a record: curr.ramo, or curr.DESC_RAMO in variant 2
RamoOf(v, r) == IF v = 2 THEN r.DESC_RAMO ELSE r.ramo

(***************************************************************************)
(* Aggregation                                                             *)
(***************************************************************************)
RECURSIVE SumAprobado(_)
\* data.reduce((acc, curr) => acc + curr.aprobado, 0)
SumAprobado(d) == IF d = <<>> THEN 0 ELSE SumAprobado(SubSeq(d, 1, Len(d) - 1)) + d[Len(d)].aprobado

RECURSIVE SumPagado(_)
\* data.reduce((acc, curr) => acc + curr.pagado, 0)
SumPagado(d) == IF d = <<>> THEN 0 ELSE SumPagado(SubSeq(d, 1, Len(d) - 1)) + d[Len(d)].pagado

totalApproved(d) == SumAprobado(d)

totalPaid(d) == SumPagado(d)

Pow10(f) == IF f = 0 THEN 1 ELSE IF f = 1 THEN 10 ELSE 100

Abs(x) == IF x < 0 THEN -x ELSE x

\* faulty variant: the digits are cut off instead of rounded
ToFixedTruncating(num, den, f) ==
    LET m == (Abs(num) * 100 * Pow10(f)) \div den
    IN [str |-> TRUE, digits |-> f, scaled |-> IF num < 0 THEN -m ELSE m]

\* ((num / den) * 100).toFixed(f) for den > 0: the integer n with n / 10^f
\* closest to the value, the larger one on a tie, taken on the magnitude
ToFixed(num, den, f) ==
    LET m == (2 * Abs(num) * 100 * Pow10(f) + den) \div (2 * den)
    IN [str |-> TRUE, digits |-> f, scaled |-> IF num < 0 THEN -m ELSE m]

\* the number of decimals each variant passes to toFixed
RateDigits(v) == IF v = 2 THEN 2 ELSE 1

\* the value used when totalApproved > 0 is false: "0.0" in variant 1, 0 elsewhere
RateSentinel(v) ==
    IF v = 1 THEN [str |-> TRUE, digits |-> 1, scaled |-> 0]
    ELSE [str |-> FALSE, digits |-> 0, scaled |-> 0]

executionRate(v, d) ==
    IF totalApproved(d) > 0
    THEN ToFixed(totalPaid(d), totalApproved(d), RateDigits(v))
    ELSE RateSentinel(v)

\* the property names every object inherits from Object.prototype, which
\* acc[name] finds (truthy) on the fresh {} accumulator
ObjectPrototypeKeys == {Constructor}

GroupIndex(acc, name) == CHOOSE k \in 1..Len(acc) : acc[k].name.s = name.s

HasOwnGroup(acc, name) == \E k \in 1..Len(acc) : acc[k].name.s = name.s

\* one step of the object-keyed reducer (variants 1, 3, 4); acc lists the own
\* properties of the accumulator in insertion order
ObjectStep(acc, name, aprobado, pagado) ==
    IF HasOwnGroup(acc, name)
    THEN LET k == GroupIndex(acc, name)
         IN [acc EXCEPT ![k].aprobado = @ + aprobado, ![k].pagado = @ + pagado]
    ELSE IF name.s \in ObjectPrototypeKeys
    THEN acc   \* !acc[name] is false: the += lands on the inherited member
    ELSE Append(acc, [name |-> name, aprobado |-> 0 + aprobado, pagado |-> 0 + pagado])

HasFound(acc, name) == \E k \in 1..Len(acc) : acc[k].name = name

FindIndex(acc, name) == CHOOSE k \in 1..Len(acc) :
    acc[k].name = name /\ \A j \in 1..(k - 1) : acc[j].name # name

\* one step of the find/push reducer (variant 2)
FindStep(acc, name, aprobado, pagado) ==
    IF HasFound(acc, name)
    THEN LET k == FindIndex(acc, name)
         IN [acc EXCEPT ![k].aprobado = @ + aprobado, ![k].pagado = @ + pagado]
    ELSE Append(acc, [name |-> name, aprobado |-> aprobado, pagado |-> pagado])

RECURSIVE grouped(_, _)
\* the groups before sorting: Object.values(reduce(..., {})) or reduce(..., [])
grouped(v, d) ==
    IF d = <<>> THEN <<>>
    ELSE LET acc == grouped(v, SubSeq(d, 1, Len(d) - 1))
             curr == d[Len(d)]
         IN IF v = 2
            THEN FindStep(acc, RamoOf(v, curr), curr.aprobado, curr.pagado)
            ELSE ObjectStep(acc, RamoOf(v, curr), curr.aprobado, curr.pagado)

\* faulty variant: the comparator a.aprobado - b.aprobado, ascending
InsertAsc(sorted, g) ==
    LET keep == {k \in 0..Len(sorted) : \A j \in 1..k : sorted[j].aprobado <= g.aprobado}
        pos == CHOOSE k \in keep : \A j \in keep : j <= k
    IN SubSeq(sorted, 1, pos) \o <<g>> \o SubSeq(sorted, pos + 1, Len(sorted))

\* insert g behind every entry whose aprobado is not smaller (stable)
InsertDesc(sorted, g) ==
    LET keep == {k \in 0..Len(sorted) : \A j \in 1..k : sorted[j].aprobado >= g.aprobado}
        pos == CHOOSE k \in keep : \A j \in keep : j <= k
    IN SubSeq(sorted, 1, pos) \o <<g>> \o SubSeq(sorted, pos + 1, Len(sorted))

RECURSIVE SortDesc(_)
\* .sort((a, b) => b.aprobado - a.aprobado), a stable sort
SortDesc(gs) ==
    IF gs = <<>> THEN <<>>
    ELSE InsertDesc(SortDesc(SubSeq(gs, 1, Len(gs) - 1)), gs[Len(gs)])

\* the N of .slice(0, N)
TopAuth == 7
TopEnv == 5

TopN(v) == IF v = 2 THEN TopEnv ELSE TopAuth

Slice(s, n) == SubSeq(s, 1, IF Len(s) < n THEN Len(s) ELSE n)

chartData(v, d) == Slice(SortDesc(grouped(v, d)), TopN(v))

(***************************************************************************)
(* Module-level initialisation                                             *)
(***************************************************************************)
\* the values __firebase_config can have: not defined, '', text that is not
\* JSON, JSON without apiKey, JSON with apiKey.  In variant 2 the input is
\* VITE_FIREBASE_API_KEY: absent ("nokey") or present ("ok")
Configs == {"undefined", "empty", "invalid", "nokey", "ok"}

\* the values __initial_auth_token can have: not defined, '', a token
Tokens == {Undefined, Str(<<>>), Str(<<"t", "k">>)}

NoUser == "null"
Users == {"u1", "u2"}

\* err.message of the errors the backend reports on a subscription
ErrorMessages == {"permission-denied", "unavailable"}

\* firebaseConfig after the guarded parse of variants 1 and 3: "null", or
\* the parsed object with or without an apiKey
getFirebaseConfig(c) ==
    CASE c \in {"undefined", "empty"} -> "null"   \* typeof test or falsy ''
      [] c = "invalid" -> "null"                   \* JSON.parse threw, caught
      [] c = "nokey" -> "nokey"
      [] OTHER -> "ok"

\* whether evaluating the module can throw: the unguarded JSON.parse of
\* variant 4 on '' or invalid text
ModuleThrows(v, c) == v = 4 /\ c \in {"empty", "invalid"}


\* the module-level firebaseConfig: "null", a structure ("nokey" | "ok"), or
\* "throws" when its initialiser raises
firebaseConfig(v, c) ==
    CASE v \in {1, 3} -> getFirebaseConfig(c)
      [] v = 2 -> c
      [] OTHER -> IF ModuleThrows(v, c) THEN "throws"
                  ELSE IF c = "ok" THEN "ok" ELSE "nokey"

\* the outcomes of the module-level initialisation: [crashed, services]
ModuleInit(v, c) ==
    CASE v \in {1, 3} ->
           {[crashed |-> FALSE, services |-> getFirebaseConfig(c) = "ok"]}
      [] v = 2 ->
           \* initializeApp/getFirestore inside try: db stays undefined when it throws
           IF c = "ok"
           THEN {[crashed |-> FALSE, services |-> b] : b \in BOOLEAN}
           ELSE {[crashed |-> FALSE, services |-> FALSE]}
      [] OTHER ->
           IF ModuleThrows(v, c) THEN {[crashed |-> TRUE, services |-> FALSE]}
           ELSE IF c = "ok" THEN {[crashed |-> FALSE, services |-> TRUE]}
           \* empty apiKey: the SDK's getAuth either accepts it or throws
           ELSE {[crashed |-> b, services |-> ~b] : b \in BOOLEAN}

(***************************************************************************)
(* Messages handed to setError: a sequence of parts, <<>> is null          *)
(***************************************************************************)
NoError == <<>>

ConfigError(v) ==
    CASE v = 1 -> <<"Configuración de servicios no detectada. Por favor, verifica el entorno de ejecución.">>
      [] v = 3 -> <<"Configuración de Firebase no detectada. Por favor, asegúrate de estar en el entorno correcto.">>
      [] OTHER -> <<"Faltan los Secrets de GitHub (API Key).">>

DbError == <<"Error en la conexión con la base de datos.">>

\* what the catch of initAuth hands to setError (variant 4 only logs)
AuthError(v) ==
    CASE v = 1 -> <<"Error de autenticación: No se pudo establecer una sesión segura.">>
      [] v = 3 -> <<"Error al iniciar sesión de forma anónima.">>
      [] OTHER -> NoError


\* faulty variant: the message of the backend's error is dropped
SubscriptionErrorWithoutMessage(v, m) ==
    CASE v = 1 -> <<"Acceso denegado o error de red: ">>
      [] v = 4 -> <<"Error de acceso: ">>
      [] OTHER -> <<"Error de Firestore: ">>

\* what the subscription's error callback hands to setError
SubscriptionError(v, m) ==
    CASE v = 1 -> <<"Acceso denegado o error de red: ", m>>
      [] v = 4 -> <<"Error de acceso: ", m>>
      [] OTHER -> <<"Error de Firestore: ", m>>

(***************************************************************************)
(* Subscriptions and effects                                               *)
(***************************************************************************)
SubNone == [state |-> "none", len |-> 0, err |-> ""]

\* an open onSnapshot subscription; len is the data.length its callbacks
\* captured (read by the error callback of variant 1 only)
SubOpen(n) == [state |-> "open", len |-> n, err |-> ""]

\* faulty variant: the anonymous sign-in is not in the else branch
initAuthFallsThrough(tok) ==
    IF tok.t # "undefined" /\ Truthy(tok) THEN <<"custom", "anonymous">> ELSE <<"anonymous">>

\* the sign-in requests initAuth issues
initAuth(tok) ==
    IF tok.t # "undefined" /\ Truthy(tok) THEN <<"custom">> ELSE <<"anonymous">>


\* faulty variant: the data effect does not test user
DataEffectWithoutUserGuard(v, u, d, svc) ==
    IF ~svc THEN SubNone
    ELSE SubOpen(IF v = 1 THEN Len(d) ELSE 0)

\* the data effect of variants 1, 3, 4, run with user u and records d: the
\* previous subscription is cleaned up and the effect returns early or subscribes
DataEffect(v, u, d, svc) ==
    IF u = NoUser \/ ~svc THEN SubNone
    ELSE SubOpen(IF v = 1 THEN Len(d) ELSE 0)


\* faulty variant: the deps of variant 1 are [user, data], and every snapshot
\* sets a new array
DataDepsChangedAlways(v, d1, d2) == v = 1

\* whether a render with records d2 in place of d1 re-runs the data effect
\* (deps [user, data.length] in variant 1, [user] or [] elsewhere)
DataDepsChanged(v, d1, d2) == v = 1 /\ Len(d1) # Len(d2)

\* the onSnapshot calls made once a run of the data effect has returned sub
Subscribed(n, sub) == IF sub.state = "open" THEN n + 1 ELSE n

\* the runs of the data effect that subscribe are followed up to MaxOpens calls
CanSubscribe(sub) == sub.state = "open" => opened < MaxOpens

\* the listener onAuthStateChanged registers, and the listener the id-th
\* onSnapshot call registers
AuthListener == <<"auth", 1>>

DataListener(id) == <<"data", id>>

\* faulty variant: unsubscribe() does nothing
UnsubscribeNothing(ls, l) == ls

\* unsubscribe(): the backend drops the listener, if it still holds it
Unsubscribe(ls, l) == ls \ {l}

\* the cleanup of the data effect's previous run, which subscribed as the n-th
\* call unless it returned early
Cleanup(ls, sub, n) ==
    IF sub.state = "none" THEN ls ELSE Unsubscribe(ls, DataListener(n))

\* a re-run of the data effect: the cleanup of the previous run, then the new
\* run that returns sub
Resubscribe(ls, prev, n, sub) ==
    Cleanup(ls, prev, n) \cup (IF sub.state = "open" THEN {DataListener(n + 1)} ELSE {})

\* whether the callback of listener l belongs to a subscription the view has
\* replaced or closed
IsStale(l) == l[2] # opened \/ dataSub.state # "open"

(***************************************************************************)
(* Initial state: the module has been evaluated, nothing is mounted        *)
(***************************************************************************)
Init ==
    /\ variant \in 1..4
    /\ config \in (IF variant = 2 THEN {"nokey", "ok"} ELSE Configs)
    /\ token \in (IF variant = 2 THEN {Undefined} ELSE Tokens)
    /\ \E m \in ModuleInit(variant, config) :
         /\ services = m.services
         /\ phase = (IF m.crashed THEN "crashed" ELSE "constructed")
    /\ data = <<>>
    /\ loading = TRUE
    /\ error = NoError
    /\ view = "dashboard"
    /\ user = NoUser
    /\ authListener = FALSE
    /\ dataSub = SubNone
    /\ signIn = "none"
    /\ signInRequests = <<>>
    /\ collection = {}
    /\ lastSnap = {}
    /\ delivered = FALSE
    /\ opened = 0
    /\ subErrored = FALSE
    /\ listeners = {}
    /\ staleCalls = FALSE

(***************************************************************************)
(* Actions                                                                 *)
(***************************************************************************)
\* the backend creates or deletes document i, out of band
BackendWrite(i) ==
    /\ collection' = (IF i \in collection THEN collection \ {i} ELSE collection \cup {i})
    /\ UNCHANGED <<variant, config, token, services, phase, data, loading, error, view,
                   user, authListener, dataSub, signIn, signInRequests, lastSnap, delivered,
                   opened, subErrored,
                   listeners, staleCalls>>

\* whether the effects of the first render stop at the configuration guard
ConfigGuardFails(v, c, svc) ==
    CASE v = 1 -> getFirebaseConfig(c) = "null" \/ ~svc
      [] v = 2 -> c # "ok"
      [] v = 3 -> getFirebaseConfig(c) # "ok"
      [] OTHER -> FALSE

\* whether the auth effect calls initAuth and registers the listener
AuthEffectRuns(v, c, svc) ==
    CASE v = 1 -> ~ConfigGuardFails(v, c, svc)
      [] v = 2 -> FALSE
      [] v = 3 -> svc
      [] OTHER -> TRUE

\* first render committed: the effects run in order
Mount ==
    /\ phase = "constructed"
    /\ phase' = "mounted"
    /\ IF ConfigGuardFails(variant, config, services)
       THEN error' = ConfigError(variant) /\ loading' = FALSE
       ELSE IF variant = 2 /\ ~services
       THEN error' = DbError /\ loading' = FALSE
       ELSE UNCHANGED <<error, loading>>
    /\ IF AuthEffectRuns(variant, config, services)
       THEN /\ signInRequests' = signInRequests \o initAuth(token)
            /\ signIn' = "pending"
            /\ authListener' = TRUE
       ELSE UNCHANGED <<signInRequests, signIn, authListener>>
    /\ dataSub' = (IF variant = 2
                   THEN (IF config = "ok" /\ services THEN SubOpen(0) ELSE SubNone)
                   ELSE DataEffect(variant, user, data, services))
    /\ opened' = Subscribed(opened, dataSub')
    /\ listeners' = (IF AuthEffectRuns(variant, config, services) THEN {AuthListener} ELSE {})
                     \cup (IF dataSub'.state = "open" THEN {DataListener(opened')} ELSE {})
    /\ UNCHANGED <<variant, config, token, services, data, view, user, collection,
                   lastSnap, delivered, subErrored,
                   staleCalls>>

\* the awaited sign-in resolves
SignInResolves ==
    /\ signIn = "pending"
    /\ signIn' = "resolved"
    /\ UNCHANGED <<variant, config, token, services, phase, data, loading, error, view,
                   user, authListener, dataSub, signInRequests, collection, lastSnap,
                   delivered, opened, subErrored,
                   listeners, staleCalls>>


\* the awaited sign-in rejects: the catch of initAuth (a state setter of an
\* unmounted view does nothing)
SignInRejects ==
    /\ signIn = "pending"
    /\ signIn' = "rejected"
    /\ IF phase = "mounted" /\ variant \in {1, 3}
       THEN error' = AuthError(variant)
       ELSE UNCHANGED error
    /\ IF phase = "mounted" /\ variant = 1
       THEN loading' = FALSE
       ELSE UNCHANGED loading
    /\ UNCHANGED <<variant, config, token, services, phase, data, view, user,
                   authListener, dataSub, signInRequests, collection, lastSnap, delivered,
                   opened, subErrored,
                   listeners, staleCalls>>


\* faulty variant: a change of user shows the loading screen again
AuthStateChangedReloading(u) ==
    /\ authListener
    /\ phase = "mounted"
    /\ user' = u
    /\ IF u # user
       THEN /\ CanSubscribe(DataEffect(variant, u, data, services))
            /\ dataSub' = DataEffect(variant, u, data, services)
            /\ opened' = Subscribed(opened, dataSub')
            /\ listeners' = Resubscribe(listeners, dataSub, opened, dataSub')
            /\ loading' = (dataSub'.state = "open")
       ELSE UNCHANGED <<dataSub, opened, loading, listeners>>
    /\ UNCHANGED <<variant, config, token, services, phase, data, error, view,
                   authListener, signIn, signInRequests, collection, lastSnap, delivered,
                   subErrored,
                   staleCalls>>

\* the auth listener reports u: setUser(u), and the data effect re-runs when
\* user changed
AuthStateChanged(u) ==
    /\ authListener
    /\ phase = "mounted"
    /\ user' = u
    /\ IF u # user
       THEN /\ CanSubscribe(DataEffect(variant, u, data, services))
            /\ dataSub' = DataEffect(variant, u, data, services)
            /\ opened' = Subscribed(opened, dataSub')
            /\ listeners' = Resubscribe(listeners, dataSub, opened, dataSub')
       ELSE UNCHANGED <<dataSub, opened, listeners>>
    /\ UNCHANGED <<variant, config, token, services, phase, data, loading, error, view,
                   authListener, signIn, signInRequests, collection, lastSnap, delivered,
                   subErrored,
                   staleCalls>>

\* faulty variant: the snapshot is appended to the records held
OnSnapshotMerging ==
    /\ phase = "mounted"
    /\ \E l \in listeners : l[1] = "data" /\ staleCalls' = (staleCalls \/ IsStale(l))
    /\ LET items == data \o SnapshotItems(variant, DocsOf(collection))
       IN /\ data' = items
          /\ loading' = FALSE
          /\ IF DataDepsChanged(variant, data, items)
             THEN /\ CanSubscribe(DataEffect(variant, user, items, services))
                  /\ dataSub' = DataEffect(variant, user, items, services)
                  /\ opened' = Subscribed(opened, dataSub')
                  /\ listeners' = Resubscribe(listeners, dataSub, opened, dataSub')
             ELSE UNCHANGED <<dataSub, opened, listeners>>
    /\ lastSnap' = collection
    /\ delivered' = TRUE
    /\ UNCHANGED <<variant, config, token, services, phase, error, view, user,
                   authListener, signIn, signInRequests, collection, subErrored>>



\* faulty variant: the success callback calls setError(null)
OnSnapshotClearingError ==
    /\ phase = "mounted"
    /\ \E l \in listeners : l[1] = "data" /\ staleCalls' = (staleCalls \/ IsStale(l))
    /\ LET items == SnapshotItems(variant, DocsOf(collection))
       IN /\ data' = items
          /\ loading' = FALSE
          /\ error' = NoError
          /\ IF DataDepsChanged(variant, data, items)
             THEN /\ CanSubscribe(DataEffect(variant, user, items, services))
                  /\ dataSub' = DataEffect(variant, user, items, services)
                  /\ opened' = Subscribed(opened, dataSub')
                  /\ listeners' = Resubscribe(listeners, dataSub, opened, dataSub')
             ELSE UNCHANGED <<dataSub, opened, listeners>>
    /\ lastSnap' = collection
    /\ delivered' = TRUE
    /\ UNCHANGED <<variant, config, token, services, phase, view, user,
                   authListener, signIn, signInRequests, collection, subErrored>>

\* the subscription delivers the collection: the success callback
OnSnapshot ==
    /\ phase = "mounted"
    /\ \E l \in listeners : l[1] = "data" /\ staleCalls' = (staleCalls \/ IsStale(l))
    /\ LET items == SnapshotItems(variant, DocsOf(collection))
       IN /\ data' = items
          /\ loading' = FALSE
          /\ IF DataDepsChanged(variant, data, items)
             THEN /\ CanSubscribe(DataEffect(variant, user, items, services))
                  /\ dataSub' = DataEffect(variant, user, items, services)
                  /\ opened' = Subscribed(opened, dataSub')
                  /\ listeners' = Resubscribe(listeners, dataSub, opened, dataSub')
             ELSE UNCHANGED <<dataSub, opened, listeners>>
    /\ lastSnap' = collection
    /\ delivered' = TRUE
    /\ UNCHANGED <<variant, config, token, services, phase, error, view, user,
                   authListener, signIn, signInRequests, collection, subErrored>>

\* faulty variant: the data.length guard of variant 1 is missing
ErrorCallbackSetsAlways(v, sub) == TRUE

\* whether the error callback calls setError and setLoading(false)
ErrorCallbackSets(v, sub) == v # 1 \/ sub.len = 0


\* faulty variant: the error callback subscribes again
OnSnapshotErrorResubscribing(m) ==
    /\ phase = "mounted"
    /\ \E l \in listeners :
         /\ l[1] = "data"
         /\ listeners' = (listeners \ {l}) \cup {DataListener(opened + 1)}
         /\ staleCalls' = (staleCalls \/ IsStale(l))
    /\ opened < MaxOpens
    /\ dataSub' = SubOpen(dataSub.len)
    /\ opened' = opened + 1
    /\ subErrored' = TRUE
    /\ IF ErrorCallbackSets(variant, dataSub)
       THEN error' = SubscriptionError(variant, m) /\ loading' = FALSE
       ELSE UNCHANGED <<error, loading>>
    /\ UNCHANGED <<variant, config, token, services, phase, data, view, user,
                   authListener, signIn, signInRequests, collection, lastSnap, delivered>>


\* faulty variant: the error callback sets error and leaves loading as it is
OnSnapshotErrorKeepsLoading(m) ==
    /\ phase = "mounted"
    /\ \E l \in listeners :
         /\ l[1] = "data"
         /\ listeners' = listeners \ {l}
         /\ staleCalls' = (staleCalls \/ IsStale(l))
         /\ dataSub' = (IF IsStale(l) THEN dataSub
                        ELSE [dataSub EXCEPT !.state = "failed", !.err = m])
    /\ subErrored' = TRUE
    /\ IF ErrorCallbackSets(variant, dataSub)
       THEN error' = SubscriptionError(variant, m)
       ELSE UNCHANGED error
    /\ UNCHANGED <<variant, config, token, services, phase, data, loading, view, user,
                   authListener, signIn, signInRequests, collection, lastSnap, delivered,
                   opened>>

\* the subscription fails with message m: the error callback; the backend
\* ends a listener it reported an error on
OnSnapshotError(m) ==
    /\ phase = "mounted"
    /\ \E l \in listeners :
         /\ l[1] = "data"
         /\ listeners' = listeners \ {l}
         /\ staleCalls' = (staleCalls \/ IsStale(l))
         /\ dataSub' = (IF IsStale(l) THEN dataSub
                        ELSE [dataSub EXCEPT !.state = "failed", !.err = m])
    /\ subErrored' = TRUE
    /\ IF ErrorCallbackSets(variant, dataSub)
       THEN error' = SubscriptionError(variant, m) /\ loading' = FALSE
       ELSE UNCHANGED <<error, loading>>
    /\ UNCHANGED <<variant, config, token, services, phase, data, view, user,
                   authListener, signIn, signInRequests, collection, lastSnap, delivered,
                   opened>>

\* whether the PANEL / EXPLORADOR buttons are on screen
NavRendered ==
    /\ phase = "mounted"
    /\ ~loading
    /\ variant = 2 => (error = NoError /\ data # <<>>)

\* onClick={() => setView(w)}
SetView(w) ==
    /\ NavRendered
    /\ view' = w
    /\ UNCHANGED <<variant, config, token, services, phase, data, loading, error, user,
                   authListener, dataSub, signIn, signInRequests, collection, lastSnap,
                   delivered, opened, subErrored,
                   listeners, staleCalls>>

\* faulty variant: the effects return no cleanup
UnmountWithoutCleanup ==
    /\ phase = "mounted"
    /\ phase' = "unmounted"
    /\ UNCHANGED <<variant, config, token, services, data, loading, error, view, user,
                   authListener, dataSub, signIn, signInRequests, collection, lastSnap,
                   delivered, opened, subErrored,
                   listeners, staleCalls>>

\* the view is disposed: the cleanups of the effects run
Unmount ==
    /\ phase = "mounted"
    /\ phase' = "unmounted"
    /\ authListener' = FALSE
    /\ dataSub' = SubNone
    /\ listeners' = Cleanup(Unsubscribe(listeners, AuthListener), dataSub, opened)
    /\ UNCHANGED <<variant, config, token, services, data, loading, error, view, user,
                   signIn, signInRequests, collection, lastSnap, delivered, opened,
                   subErrored,
                   staleCalls>>

Next ==
    \/ \E i \in 1..LifeDocs : BackendWrite(i)
    \/ Mount
    \/ SignInResolves
    \/ SignInRejects
    \/ \E u \in Users \cup {NoUser} : AuthStateChanged(u)
    \/ OnSnapshot
    \/ \E m \in ErrorMessages : OnSnapshotError(m)
    \/ \E w \in {"dashboard", "table"} : SetView(w)
    \/ Unmount

Spec == Init /\ [][Next]_vars


(***************************************************************************)
(* Aggregation runs: a usable configuration, the collection is filled      *)
(* before the view mounts, the listener reports a user, snapshots arrive.  *)
(***************************************************************************)
InitAgg == Init /\ config = "ok" /\ token = Undefined /\ services

FillCollection(i) == phase = "constructed" /\ BackendWrite(i)

NextAgg ==
    \/ \E i \in 1..AggDocs : FillCollection(i)
    \/ Mount
    \/ AuthStateChanged("u1")
    \/ OnSnapshot

SpecAgg == InitAgg /\ [][NextAgg]_vars

(***************************************************************************)
(* Fair runs: the backend answers an open subscription with a snapshot or  *)
(* an error                                                                *)
(***************************************************************************)
Deliver == OnSnapshot \/ \E m \in ErrorMessages : OnSnapshotError(m)

InitFair == Init /\ config = "ok" /\ token = Undefined /\ services

NextFair ==
    \/ \E i \in 1..LifeDocs : FillCollection(i)
    \/ Mount
    \/ SignInResolves
    \/ SignInRejects
    \/ \E u \in Users \cup {NoUser} : AuthStateChanged(u)
    \/ Deliver
    \/ Unmount

SpecFair == InitFair /\ [][NextFair]_vars /\ WF_vars(Deliver)


(***************************************************************************)
(* Rendering: the parts of the screen the component returns                *)
(***************************************************************************)
\* the chart grid, the table, or the placeholder of the variant that tests
\* data.length in both branches
Content(v, w, d) ==
    IF v = 4 /\ d = <<>> THEN {"placeholder"}
    ELSE IF w = "dashboard" THEN {"charts"} ELSE {"table"}

\* faulty variant: the error banner is never rendered
RenderWithoutBanner(v, l, e, w, d) ==
    IF l THEN {"loadingScreen"}
    ELSE {"nav", "metricCards"} \cup Content(v, w, d)

\* what App returns for loading l, error e, view w and records d
Render(v, l, e, w, d) ==
    IF l THEN {"loadingScreen"}
    ELSE IF v = 2
    THEN (IF e # NoError THEN {"errorScreen"}
          ELSE IF d = <<>> THEN {"emptyScreen"}
          ELSE {"nav", "metricCards"} \cup Content(v, w, d))
    ELSE (IF e # NoError THEN {"errorBanner"} ELSE {})
         \cup {"nav", "metricCards"} \cup Content(v, w, d)

\* the screen: a view that is not mounted shows nothing
screen == IF phase = "mounted" THEN Render(variant, loading, error, view, data) ELSE {}


(***************************************************************************)
(* Settling runs: the collection is filled before the view mounts and the  *)
(* listener reports one user, who stays signed in                          *)
(***************************************************************************)
NextSettle ==
    \/ \E i \in 1..LifeDocs : FillCollection(i)
    \/ Mount
    \/ SignInResolves
    \/ SignInRejects
    \/ AuthStateChanged("u1")
    \/ Deliver
    \/ \E w \in {"dashboard", "table"} : SetView(w)
    \/ Unmount

SpecSettle == InitFair /\ [][NextSettle]_vars /\ WF_vars(Deliver)

(***************************************************************************)
(* Properties                                                              *)
(***************************************************************************)
RECURSIVE SumGroupsAprobado(_)
SumGroupsAprobado(gs) ==
    IF gs = <<>> THEN 0 ELSE gs[1].aprobado + SumGroupsAprobado(Tail(gs))

\* C1: in every variant, the sum of aprobado over the groups (before the
\* truncation to the top N) equals totalApproved, the sum over the records.
\* Fails in the object-keyed variants for a category named like a member of
\* Object.prototype.
C1_GroupingConserves ==
    SumGroupsAprobado(grouped(variant, data)) = totalApproved(data)

\* the rate in hundredths, whatever the number of decimals it was printed with
RateHundredths(r) == r.scaled * Pow10(2 - r.digits)

\* n tenths is 100 * p / a rounded to one decimal place (either way on a tie)
IsRoundedToOneDecimal(n, p, a) == 2 * Abs(n * a - 1000 * p) <= Abs(a)

\* C2: in every variant the execution rate is 0 when totalApproved is 0 and
\* otherwise 100 * totalPaid / totalApproved rounded to one decimal place.
C2_RateRoundedToOneDecimal ==
    LET a == totalApproved(data)
        p == totalPaid(data)
        h == RateHundredths(executionRate(variant, data))
    IN IF a = 0 THEN h = 0
       ELSE h % 10 = 0 /\ IsRoundedToOneDecimal(h \div 10, p, a)

\* C3: chartData is ordered by non-increasing aprobado, has at most N entries
\* (7 in the auth-based variants, 5 in the env-based one), holds each category
\* name at most once, and no group left out has more aprobado than a group kept.
C3_TopNSortedBounded ==
    LET c == chartData(variant, data)
        g == grouped(variant, data)
        kept == {c[k] : k \in 1..Len(c)}
    IN /\ \A k \in 1..(Len(c) - 1) : c[k].aprobado >= c[k + 1].aprobado
       /\ Len(c) <= (IF variant = 2 THEN 5 ELSE 7)
       /\ \A j, k \in 1..Len(c) : j # k => c[j].name # c[k].name
       /\ \A k \in 1..Len(g) :
            g[k] \notin kept => \A x \in kept : g[k].aprobado <= x.aprobado
       /\ \A x \in kept : \E k \in 1..Len(g) : g[k] = x

\* a snapshot with more groups than the chart holds has been aggregated
C3_Witness ==
    /\ variant # 2
    /\ Len(grouped(variant, data)) > 7
    /\ Len(chartData(variant, data)) = 7

\* DESC_RAMO is missing, null or empty
NoRamo(d) == d.DESC_RAMO \in {Undefined, Null, Str(<<>>)}

RECURSIVE SumAprobadoWhere(_, _, _)
\* the sum of aprobado over the records of d whose category is name
SumAprobadoWhere(v, d, name) ==
    IF d = <<>> THEN 0
    ELSE (IF RamoOf(v, d[1]) = name THEN d[1].aprobado ELSE 0)
         + SumAprobadoWhere(v, Tail(d), name)

\* C4: every document whose DESC_RAMO is missing, null or empty gets the
\* variant's fallback label, all of them are summed into the single group of
\* that label, and a document with a non-empty DESC_RAMO keeps its own name.
C4_FallbackLabel ==
    delivered =>
        LET docs == DocsOf(lastSnap)
            label == Str(FallbackRamo(variant))
            g == grouped(variant, data)
            labelled == {k \in 1..Len(g) : g[k].name = label}
        IN /\ Len(data) = Len(docs)
           /\ \A k \in 1..Len(docs) :
                RamoOf(variant, data[k]) = (IF NoRamo(docs[k]) THEN label ELSE docs[k].DESC_RAMO)
           /\ Cardinality(labelled) <= 1
           /\ (\E k \in 1..Len(docs) : NoRamo(docs[k])) => Cardinality(labelled) = 1
           /\ \A k \in labelled : g[k].aprobado = SumAprobadoWhere(variant, data, label)

\* documents with a missing, a null and an empty DESC_RAMO were delivered together
C4_Witness ==
    /\ delivered
    /\ {4, 5, 8} \subseteq lastSnap
    /\ \E k \in 1..Len(grouped(variant, data)) :
         /\ grouped(variant, data)[k].name = Str(FallbackRamo(variant))
         /\ grouped(variant, data)[k].aprobado = 130

\* C5: for [{A, 100, 50}, {A, 50, 50}, {B, 200, 0}] the aggregation of the
\* object-keyed variants yields totals 350 and 100, rate 28.6, groups
\* A = (150, 100) and B = (200, 0), ordered B before A.
C5_Example ==
    (variant # 2 /\ delivered /\ lastSnap = {1, 2, 3}) =>
        LET c == chartData(variant, data)
        IN /\ totalApproved(data) = 350
           /\ totalPaid(data) = 100
           /\ executionRate(variant, data) = [str |-> TRUE, digits |-> 1, scaled |-> 286]
           /\ c = << [name |-> Str(<<"B">>), aprobado |-> 200, pagado |-> 0],
                     [name |-> Str(<<"A">>), aprobado |-> 150, pagado |-> 100] >>

\* the example's three documents were delivered and aggregated
C5_Witness ==
    /\ variant # 2
    /\ delivered
    /\ lastSnap = {1, 2, 3}
    /\ Len(data) = 3
    /\ ~loading

\* C6: the record list is the normalisation of the snapshot delivered last:
\* one record per document, in the snapshot's order, with the document's id;
\* before any snapshot, and after an empty one, it is empty.
C6_DataIsLastSnapshot ==
    LET docs == DocsOf(lastSnap)
    IN /\ ~delivered => data = <<>>
       /\ delivered =>
            /\ Len(data) = Len(docs)
            /\ \A k \in 1..Len(docs) : data[k].id = docs[k].id
            /\ \A k \in 1..Len(data) : data[k].id \in lastSnap

\* a snapshot was delivered and the backend has moved on since
C6_Witness ==
    /\ delivered
    /\ lastSnap = {2}
    /\ collection = {1}
    /\ Len(data) = 1

\* C7: after unmount no data subscription and no auth listener is active, and
\* no step changes data, loading, error or user.
C7_TornDownOnUnmount ==
    /\ [](phase = "unmounted" => (~authListener /\ dataSub.state # "open"))
    /\ [][phase = "unmounted" => UNCHANGED <<data, loading, error, user>>]_vars

\* the view was unmounted with records loaded and the sign-in still pending
C7_Witness ==
    /\ phase = "unmounted"
    /\ data # <<>>
    /\ user # NoUser
    /\ signIn = "pending"

\* the configuration parsed and has an apiKey, and the handles exist
UsableConfig == config = "ok" /\ services

\* C8: in the auth-based variants a mount with a usable configuration issues
\* exactly one sign-in request, custom-token when the initial token is defined
\* and non-empty and anonymous otherwise, and never a second one.
C8_OneSignInRequest ==
    (variant # 2 /\ UsableConfig) =>
        /\ phase = "constructed" => signInRequests = <<>>
        /\ phase \in {"mounted", "unmounted"} =>
             signInRequests = (IF token = Str(<<"t", "k">>) THEN <<"custom">>
                               ELSE <<"anonymous">>)

\* the one request failed and the view lived on
C8_Witness ==
    /\ variant # 2
    /\ UsableConfig
    /\ phase = "mounted"
    /\ signIn = "rejected"
    /\ delivered
    /\ signInRequests = <<"custom">>

\* C9: in every auth-based variant a failed sign-in leaves the mounted view
\* with an error message and loading false.
C9_SignInFailureShown ==
    (variant # 2 /\ phase = "mounted" /\ signIn = "rejected") =>
        (error # NoError /\ loading = FALSE)

\* the error callback of the open subscription runs in this step
ErrorCallbackFires == dataSub.state = "open" /\ dataSub'.state = "failed"

\* error is a message that holds the backend's err.message, loading is false
ErrorShown(e, l, m) == e # NoError /\ (\E k \in 1..Len(e) : e[k] = m) /\ l = FALSE

\* C10 as stated: in every variant, whenever the error callback fires, error
\* becomes a message holding the backend's message and loading becomes false.
C10_ErrorCallbackAlwaysSets ==
    [][ErrorCallbackFires => ErrorShown(error', loading', dataSub'.err)]_vars

\* C10 amended: so it is in every variant but the first of src/src/App.jsx;
\* there only when the record list the callback captured is empty, and with a
\* non-empty list data, loading, error and view stay as they are.
C10_ErrorCallbackSets ==
    [][ErrorCallbackFires =>
         IF variant = 1 /\ dataSub.len # 0
         THEN UNCHANGED <<data, loading, error, view>>
         ELSE ErrorShown(error', loading', dataSub'.err)]_vars

\* variant 1: the subscription failed with records loaded and nothing was shown
C10_Witness ==
    /\ variant = 1
    /\ dataSub.state = "failed"
    /\ data # <<>>
    /\ error = NoError
    /\ ~loading


\* the injected configuration is absent or has no API key
ConfigAbsent == config \in {"undefined", "empty", "nokey"}

\* C11: in every variant, once the view has mounted with a configuration that
\* is absent or has no API key, error is a configuration message, loading is
\* false, and no sign-in request, auth listener or data subscription exists.
\* Fails in the variant that initialises and signs in unconditionally.
C11_ConfigAbsentReported ==
    (ConfigAbsent /\ phase \in {"mounted", "unmounted"}) =>
        /\ error \in {ConfigError(v) : v \in 1..3}
        /\ ~loading
        /\ signInRequests = <<>> /\ signIn = "none"
        /\ ~authListener
        /\ dataSub = SubNone /\ opened = 0


\* the view is mounted, past the loading screen, with an error set
ErrorSet == phase = "mounted" /\ ~loading /\ error # NoError

C13_EmptyResultShown ==
    (phase = "mounted" /\ delivered /\ ~loading /\ error = NoError /\ data = <<>>) =>
        /\ screen \cap {"emptyScreen", "placeholder"} # {}
        /\ screen \cap {"metricCards", "charts", "table"} = {}


\* C14: in every variant, whatever MONTO_APROBADO and MONTO_PAGADO hold, the
\* normalized aprobado and pagado are numbers, never NaN, and non-negative,
\* and so are totalApproved and totalPaid.  Fails for a negative amount,
\* which Number(x) || 0 keeps.
C14_AmountsNonNegative ==
    delivered =>
        /\ \A i \in lastSnap :
             /\ Or(ToNumber(Doc(i).MONTO_APROBADO), Num(0)).t = "number"
             /\ Or(ToNumber(Doc(i).MONTO_PAGADO), Num(0)).t = "number"
        /\ \A k \in 1..Len(data) : data[k].aprobado >= 0 /\ data[k].pagado >= 0
        /\ totalApproved(data) >= 0
        /\ totalPaid(data) >= 0


\* C16: in the variants that read the injected __firebase_config, resolving
\* it never raises and yields null when it is undefined, empty or not valid
\* JSON, and the backend handles are initialised only for a configuration
\* with a non-empty apiKey.  Fails in the variant with the unguarded parse.
C16_ConfigResolution ==
    variant # 2 =>
        /\ firebaseConfig(variant, config) # "throws"
        /\ phase # "crashed"
        /\ config \in {"undefined", "empty", "invalid"} =>
               firebaseConfig(variant, config) = "null"
        /\ services => firebaseConfig(variant, config) = "ok"


\* a sign-in request has been rejected or a subscription has reported an error
FailureSeen == signIn = "rejected" \/ subErrored

\* this step calls onSnapshot
Subscribes == opened' > opened

\* C17 as stated: from a sign-in failure or a subscription error on, no step
\* issues a sign-in request, and no step opens a data subscription unless
\* the auth listener reports a different identity in it.
C17_NoRetryAtAll ==
    [][FailureSeen' =>
          /\ signInRequests' = signInRequests
          /\ Subscribes => user' # user]_vars

\* C17: from a sign-in failure or a subscription error on, no step issues a
\* sign-in request, and a step opens a data subscription only when the auth
\* listener reports a different identity in it or, in variant 1, when a
\* snapshot changes the number of records held.
C17_NoRetry ==
    [][FailureSeen' =>
          /\ signInRequests' = signInRequests
          /\ Subscribes => \/ user' # user
                           \/ variant = 1 /\ Len(data') # Len(data)]_vars

C17_Witness ==
    /\ phase = "mounted" /\ signIn = "rejected" /\ subErrored
    /\ dataSub.state = "failed" /\ opened >= 2


\* C18: in the auth-based variants a data subscription is open only while the
\* user last reported is non-null: until a user is reported nothing is
\* subscribed and no snapshot reaches data, only a step that leaves a
\* non-null user subscribes, and a report of null after a user closes the
\* subscription and keeps the records held.
C18_SubscriptionNeedsUser ==
    /\ [](variant # 2 =>
            /\ dataSub.state = "open" => user # NoUser
            /\ opened = 0 => (~delivered /\ data = <<>>)
            /\ (phase = "mounted" /\ user = NoUser) => dataSub = SubNone)
    /\ [][variant # 2 =>
            /\ Subscribes => user' # NoUser
            /\ (user # NoUser /\ user' = NoUser) =>
                   (dataSub'.state = "none" /\ data' = data)]_vars

C18_Witness ==
    /\ variant # 2 /\ phase = "mounted"
    /\ user = NoUser /\ data # <<>> /\ dataSub = SubNone /\ opened > 0


\* C19: in variant 1, a subscription error that arrives while the record list
\* is non-empty leaves data, loading, error and view unchanged; one that
\* arrives while the list is empty sets error to 'Acceso denegado o error de
\* red: ' followed by the error's message, and loading to false.
C19_ErrorWithDataIgnored ==
    [][(variant = 1 /\ ErrorCallbackFires) =>
          IF data # <<>>
          THEN UNCHANGED <<data, loading, error, view>>
          ELSE /\ error' = <<"Acceso denegado o error de red: ", dataSub'.err>>
               /\ dataSub'.err \in ErrorMessages
               /\ loading' = FALSE
               /\ UNCHANGED <<data, view>>]_vars

C19_Witness ==
    /\ variant = 1 /\ phase = "mounted" /\ dataSub.state = "failed"
    /\ data = <<>> /\ delivered /\ ~loading
    /\ error = <<"Acceso denegado o error de red: ", "unavailable">>


\* C20: in every variant loading is true initially and no step sets it to
\* true again: once false it stays false through snapshots, errors, auth
\* changes and view toggles.
C20_LoadingNeverReset ==
    /\ loading = TRUE
    /\ [][~loading => ~loading']_vars

C20_Witness ==
    /\ phase = "mounted" /\ ~loading
    /\ delivered /\ subErrored /\ signIn = "rejected" /\ view = "table"
    /\ user = NoUser /\ opened >= 2


\* a subscription is open in a mounted view with a usable configuration
SubscriptionOpen == UsableConfig /\ phase = "mounted" /\ dataSub.state = "open"

\* C21: in every variant, with a usable configuration, once the subscription
\* is open (the listener has reported a user, or the env-based variant has
\* mounted) and the backend answers it, loading becomes false and the
\* loading screen goes, unless the view is unmounted or the user signs out
\* first.
C21_LoadingEnds ==
    SubscriptionOpen ~>
        \/ ~loading /\ "loadingScreen" \notin screen
        \/ phase # "mounted"
        \/ dataSub.state = "none"

C21_Witness ==
    /\ UsableConfig /\ phase = "mounted" /\ delivered
    /\ variant # 2 => (signIn = "resolved" /\ user # NoUser)
    /\ ~loading /\ "loadingScreen" \notin screen


\* the listeners the backend holds for this view, by kind
DataListeners == {l \in listeners : l[1] = "data"}

AuthListeners == {l \in listeners : l[1] = "auth"}

\* C22: at most one data subscription and at most one auth listener are
\* active in any state; the active subscription is the one opened last, a
\* step that re-runs the data effect and subscribes leaves only the new
\* subscription active, and no callback of a replaced subscription ever runs.
C22_OneSubscription ==
    /\ [](/\ Cardinality(DataListeners) <= 1
          /\ Cardinality(AuthListeners) <= 1
          /\ DataListeners \subseteq {DataListener(opened)}
          /\ dataSub.state = "open" <=> DataListeners # {}
          /\ ~staleCalls)
    /\ [][Subscribes => DataListeners' = {DataListener(opened')}]_vars

C22_Witness ==
    /\ phase = "mounted" /\ delivered /\ opened >= 2
    /\ DataListeners = {DataListener(opened)} /\ AuthListeners = {AuthListener}


\* data holds the normalized collection and a further snapshot of it would
\* not re-run the data effect
Settled ==
    /\ delivered /\ dataSub.state = "open"
    /\ data = SnapshotItems(variant, DocsOf(collection))
    /\ ~DataDepsChanged(variant, data, SnapshotItems(variant, DocsOf(collection)))

\* C23: in variant 1 every snapshot that changes the number of records closes
\* the subscription and opens a new one; while the collection does not
\* change and the reported user stays, the subscription is opened at most
\* twice, and an open subscription leads to a state that holds the
\* normalized collection and re-subscribes no further (unless the view is
\* unmounted or the subscription fails first).
C23_ResubscriptionStops ==
    /\ [](variant = 1 => opened <= 2)
    /\ [][(variant = 1 /\ Len(data') # Len(data)) =>
             /\ opened' = opened + 1
             /\ DataListener(opened) \notin listeners'
             /\ DataListeners' = {DataListener(opened')}]_vars
    /\ (variant = 1 /\ SubscriptionOpen) ~>
           (Settled \/ phase # "mounted" \/ dataSub.state # "open")

C23_Witness ==
    variant = 1 /\ phase = "mounted" /\ opened = 2 /\ data # <<>> /\ Settled


\* the success callback of a subscription runs in this step and changes
\* something
SnapshotProcessed == data' # data \/ lastSnap' # lastSnap \/ delivered' # delivered

\* C24: in every variant error is null initially and, once a message, never
\* null again: a snapshot processed after an error replaces data and leaves
\* the message as it is, on screen.
C24_ErrorNeverCleared ==
    /\ error = NoError
    /\ [][error # NoError => error' # NoError]_vars
    /\ [][(error # NoError /\ SnapshotProcessed) =>
             /\ error' = error
             /\ data' = SnapshotItems(variant, DocsOf(collection))
             /\ screen' \cap {"errorBanner", "errorScreen"} # {}]_vars

C24_Witness ==
    /\ variant = 1 /\ phase = "mounted" /\ delivered /\ data # <<>>
    /\ error = SubscriptionError(1, "unavailable")
    /\ "errorBanner" \in screen

====
